---- MODULE Spec2Model ----
(***************************************************************************)
(* Model of float-parts (src/src/lib.rs): the ToFloatParts trait, its two  *)
(* implementations (f32, f64) and the to_float_parts! macro body.          *)
(*                                                                         *)
(* An unsigned machine integer of width w is modelled as the set of the    *)
(* positions of its 1 bits (a subset of 0..w-1), so that 64-bit patterns   *)
(* are represented exactly.  Shifts, masks, AND, OR and the decrement in   *)
(* mask! are computed bit by bit on that representation.  Values of type   *)
(* i16 / i8 are plain integers, with explicit two's complement casts.      *)
(***************************************************************************)
EXTENDS Integers, FiniteSets, Sequences, TLC

(* ------------------------------------------------------------------ *)
(* Bounds of the explored input domain.                                *)
(* ------------------------------------------------------------------ *)
\* raw exponent fields within ExpSpan of 0, of the bias and of all-ones
ExpSpan == 2
\* the FracLow lowest stored fraction bits are chosen freely
FracLow == 2
\* the FracHigh highest stored fraction bits are chosen freely
FracHigh == 3

(* ------------------------------------------------------------------ *)
(* Machine integers.                                                   *)
(* ------------------------------------------------------------------ *)
RECURSIVE Pow2(_)
Pow2(n) == IF n = 0 THEN 1 ELSE 2 * Pow2(n - 1)

\* value of a bit set (used only for fields of at most 16 bits)
RECURSIVE ToInt(_)
ToInt(S) == IF S = {} THEN 0
            ELSE LET i == CHOOSE x \in S : TRUE IN Pow2(i) + ToInt(S \ {i})

\* bits of a small natural number (below 2^17)
FromInt(n, w) == {i \in 0..(w - 1) : i <= 16 /\ (n \div Pow2(i)) % 2 = 1}

MinBit(S) == CHOOSE m \in S : \A x \in S : m <= x

\* x << k in an unsigned type of width w (bits shifted out are lost)
Shl(w, S, k) == {i + k : i \in S} \cap (0..(w - 1))

\* x >> k (logical)
Shr(S, k) == {i - k : i \in {j \in S : j >= k}}

BitAnd(A, B) == A \cap B

BitOr(A, B) == A \cup B

\* x - 1 in an unsigned type of width w (wrapping)
Sub1(w, S) == IF S = {} THEN 0..(w - 1)
              ELSE LET m == MinBit(S) IN (S \ {m}) \cup (0..(m - 1))

\* `as i16` of an unsigned value: truncate to 16 bits, two's complement
AsI16(S) == LET v == ToInt(S \cap (0..15)) IN IF 15 \in S THEN v - 65536 ELSE v

\* `as i8` of an unsigned value
AsI8(S) == LET v == ToInt(S \cap (0..7)) IN IF 7 \in S THEN v - 256 ELSE v

\* i16 result of an exact integer (two's complement wrap)
WrapI16(n) == ((n + 32768) % 65536) - 32768

\* macro_rules! mask: ((1 << b) - 1) in a type of width w
mask(w, b) == Sub1(w, Shl(w, {0}, b))

(* ------------------------------------------------------------------ *)
(* Per-type constants.                                                 *)
(* ------------------------------------------------------------------ *)
F32_SIZE_OF_S == 4
F64_SIZE_OF_S == 8

F32_NUM_SIG_BITS == 24
F32_NUM_EXP_BITS == 8
F32_EXP_ADJUST == WrapI16(WrapI16(AsI16(mask(32, F32_NUM_EXP_BITS - 1)) - F32_NUM_SIG_BITS) + 1)
F32_EXP_MAX_Short == WrapI16(WrapI16(AsI16(mask(16, F32_NUM_EXP_BITS)) - 2) - F32_EXP_ADJUST)
F32_EXP_MAX == WrapI16(WrapI16(AsI16(mask(16, F32_NUM_EXP_BITS)) - 1) - F32_EXP_ADJUST)
F32_EXP_INF_NAN == WrapI16(F32_EXP_MAX + 1)
F32_EXP_MIN == WrapI16(-F32_EXP_ADJUST)

F64_NUM_SIG_BITS == 53
F64_NUM_EXP_BITS == 11
F64_EXP_ADJUST == WrapI16(WrapI16(AsI16(mask(32, F64_NUM_EXP_BITS - 1)) + F64_NUM_SIG_BITS) - 1)
F64_EXP_MAX == WrapI16(WrapI16(AsI16(mask(16, F64_NUM_EXP_BITS)) - 1) - F64_EXP_ADJUST)
F64_EXP_INF_NAN == WrapI16(F64_EXP_MAX + 1)
F64_EXP_MIN == WrapI16(-F64_EXP_ADJUST)

\* the trait's default EXP_ADJUST, as a function of the format parameters
TRAIT_EXP_ADJUST(ns, ne) == WrapI16(WrapI16(AsI16(mask(32, ne - 1)) - ns) + 1)

Types == {"f32", "f64"}
WS(t) == IF t = "f32" THEN 8 * F32_SIZE_OF_S ELSE 8 * F64_SIZE_OF_S
NUM_SIG_BITS(t) == IF t = "f32" THEN F32_NUM_SIG_BITS ELSE F64_NUM_SIG_BITS
NUM_EXP_BITS(t) == IF t = "f32" THEN F32_NUM_EXP_BITS ELSE F64_NUM_EXP_BITS
EXP_ADJUST(t) == IF t = "f32" THEN F32_EXP_ADJUST ELSE F64_EXP_ADJUST
EXP_MAX(t) == IF t = "f32" THEN F32_EXP_MAX ELSE F64_EXP_MAX
EXP_MIN(t) == IF t = "f32" THEN F32_EXP_MIN ELSE F64_EXP_MIN
EXP_INF_NAN(t) == IF t = "f32" THEN F32_EXP_INF_NAN ELSE F64_EXP_INF_NAN

(* ------------------------------------------------------------------ *)
(* The body of to_float_parts!, statement by statement.                *)
(* ------------------------------------------------------------------ *)
\* let sign = 1 - ((bits >> (ws - 2)) & 2) as i8;
sign_of_m(ws, b) == 1 - AsI8(BitAnd(Shr(b, ws - 1), FromInt(2, ws)))
sign_of(ws, b) == 1 - AsI8(BitAnd(Shr(b, ws - 2), FromInt(2, ws)))

\* let exp = (bits >> (ns - 1)) & mask!(ne);
raw_exp(ws, ns, ne, b) == BitAnd(Shr(b, ns - 1), mask(ws, ne))

\* let mut sigbits = bits & mask!(ns - 1);
raw_sigbits_m(ws, ns, b) == BitAnd(b, mask(ws, ns - 2))
raw_sigbits(ws, ns, b) == BitAnd(b, mask(ws, ns - 1))

\* if exp == mask!(ne)
is_inf_nan_m(ws, ne, e) == e = mask(ws, ne - 1)
is_inf_nan(ws, ne, e) == e = mask(ws, ne)

\* let is_denorm = exp == 0;
is_denorm_of(e) == e = {}

\* let exp = exp as E - Self::EXP_ADJUST;   (exact difference; see adjust_exp)
adjust_exp_exact(e, adj) == AsI16(e) - adj

adjust_exp(e, adj) == WrapI16(adjust_exp_exact(e, adj))

\* sigbits <<= is_denorm as u32;
shift_denorm_m(ws, s, is_denorm) == Shl(ws, s, 0)
shift_denorm(ws, s, is_denorm) == Shl(ws, s, IF is_denorm THEN 1 ELSE 0)

\* sigbits |= (!is_denorm as S) << ns;
set_implicit_always(ws, ns, s, is_denorm) == BitOr(s, Shl(ws, {0}, ns))
set_implicit_below(ws, ns, s, is_denorm) ==
    BitOr(s, Shl(ws, IF ~is_denorm THEN {0} ELSE {}, ns - 1))
set_implicit(ws, ns, s, is_denorm) ==
    BitOr(s, Shl(ws, IF ~is_denorm THEN {0} ELSE {}, ns))

\* fn to_float_parts(self) -> (Self::SigBits, Self::Exp, i8)
to_float_parts(ws, ns, ne, adj, infnan, b) ==
    LET sg == sign_of(ws, b)
        e  == raw_exp(ws, ns, ne, b)
        s  == raw_sigbits(ws, ns, b)
        d  == is_denorm_of(e)
    IN  IF is_inf_nan(ws, ne, e)
        THEN [sigbits |-> s, exp |-> infnan, sign |-> sg, ovf |-> FALSE]
        ELSE [sigbits |-> set_implicit(ws, ns, shift_denorm(ws, s, d), d),
              exp     |-> adjust_exp(e, adj),
              sign    |-> sg,
              ovf     |-> adjust_exp_exact(e, adj) # adjust_exp(e, adj)]

\* <f32 as ToFloatParts>::to_float_parts
f32_to_float_parts(b) ==
    to_float_parts(8 * F32_SIZE_OF_S, F32_NUM_SIG_BITS, F32_NUM_EXP_BITS,
                   F32_EXP_ADJUST, F32_EXP_INF_NAN, b)

\* <f64 as ToFloatParts>::to_float_parts
f64_to_float_parts(b) ==
    to_float_parts(8 * F64_SIZE_OF_S, F64_NUM_SIG_BITS, F64_NUM_EXP_BITS,
                   F64_EXP_ADJUST, F64_EXP_INF_NAN, b)

decompose(t, b) == IF t = "f32" THEN f32_to_float_parts(b) ELSE f64_to_float_parts(b)

(* ------------------------------------------------------------------ *)
(* Input bit patterns (self.to_bits()).                                *)
(* ------------------------------------------------------------------ *)
\* IEEE-754 exponent bias of the format
Bias(t) == Pow2(NUM_EXP_BITS(t) - 1) - 1
MaxField(t) == Pow2(NUM_EXP_BITS(t)) - 1

ExpFields(t) ==
    {x \in 0..MaxField(t) :
        \/ x <= ExpSpan
        \/ x >= MaxField(t) - ExpSpan
        \/ (x >= Bias(t) - ExpSpan /\ x <= Bias(t) + ExpSpan)}

FracPositions(t) ==
    {i \in 0..(NUM_SIG_BITS(t) - 2) :
        i < FracLow \/ i > NUM_SIG_BITS(t) - 2 - FracHigh}

\* a bit pattern assembled from its three fields
Pattern(t, s, x, f) ==
    f \cup {i + (NUM_SIG_BITS(t) - 1) : i \in FromInt(x, NUM_EXP_BITS(t))}
      \cup (IF s = 1 THEN {WS(t) - 1} ELSE {})

PatternsOf(t) ==
    {Pattern(t, s, x, f) : s \in {0, 1}, x \in ExpFields(t), f \in SUBSET FracPositions(t)}

F32Inputs == PatternsOf("f32")
F64Inputs == PatternsOf("f64")

Inputs(t) == IF t = "f32" THEN F32Inputs ELSE F64Inputs

(* ------------------------------------------------------------------ *)
(* State machine: one call of to_float_parts on one value.             *)
(* ------------------------------------------------------------------ *)
VARIABLES ty, bits, pc, sigbits, exp, sign, ovf

vars == <<ty, bits, pc, sigbits, exp, sign, ovf>>

Init ==
    /\ ty \in Types
    /\ bits \in Inputs(ty)
    /\ pc = "call"
    /\ sigbits = {}
    /\ exp = 0
    /\ sign = 0
    /\ ovf = FALSE

Return(r) ==
    /\ sigbits' = r.sigbits
    /\ exp' = r.exp
    /\ sign' = r.sign
    /\ ovf' = r.ovf
    /\ pc' = "done"
    /\ UNCHANGED <<ty, bits>>

F32Call ==
    /\ pc = "call"
    /\ ty = "f32"
    /\ Return(f32_to_float_parts(bits))

F64Call ==
    /\ pc = "call"
    /\ ty = "f64"
    /\ Return(f64_to_float_parts(bits))

Next == F32Call \/ F64Call

Spec == Init /\ [][Next]_vars

TypeOK ==
    /\ ty \in Types
    /\ bits \subseteq 0..(WS(ty) - 1)
    /\ pc \in {"call", "done"}
    /\ sigbits \subseteq 0..(WS(ty) - 1)
    /\ exp \in -32768..32767
    /\ sign \in {-1, 0, 1}
    /\ ovf \in BOOLEAN

(* ------------------------------------------------------------------ *)
(* IEEE-754 reading of a bit pattern, independent of to_float_parts.   *)
(* ------------------------------------------------------------------ *)
Done == pc = "done"

\* the stored fraction field: the low NUM_SIG_BITS - 1 bits
Frac(t, b) == b \cap (0..(NUM_SIG_BITS(t) - 2))

\* the raw exponent field, as a number
Field(t, b) ==
    ToInt({i - (NUM_SIG_BITS(t) - 1) :
             i \in b \cap ((NUM_SIG_BITS(t) - 1)..(NUM_SIG_BITS(t) + NUM_EXP_BITS(t) - 2))})

SignBit(t, b) == (WS(t) - 1) \in b

IsNormal(t, b) == Field(t, b) # 0 /\ Field(t, b) # MaxField(t)
IsDenormal(t, b) == Field(t, b) = 0 /\ Frac(t, b) # {}
IsFinite(t, b) == Field(t, b) # MaxField(t)
IsInf(t, b) == Field(t, b) = MaxField(t) /\ Frac(t, b) = {}
IsNaN(t, b) == Field(t, b) = MaxField(t) /\ Frac(t, b) # {}

\* the same pattern with the top bit flipped
Negated(t, b) == IF SignBit(t, b) THEN b \ {WS(t) - 1} ELSE b \cup {WS(t) - 1}

\* m * 2^e as a dyadic rational in lowest terms (m a bit set, e an integer)
Canon(m, e) == IF m = {} THEN <<{}, 0>>
               ELSE LET tz == MinBit(m) IN <<{i - tz : i \in m}, e + tz>>

\* 1.0 and the f64 denormal -2^-1025 (= -(2^49) * 2^-1074)
One(t) == Pattern(t, 0, Bias(t), {})
NegDenorm64 == {63, 49}

Triple(r) == <<r.sigbits, r.exp, r.sign>>

\* the decomposition of every explored pattern, per width
F32Results == [o \in F32Inputs |-> f32_to_float_parts(o)]
F64Results == [o \in F64Inputs |-> f64_to_float_parts(o)]
ResultOf(t, o) == IF t = "f32" THEN F32Results[o] ELSE F64Results[o]

\* the graph of the decomposition: pairs <<pattern, triple>>
F32Graph == {<<o, Triple(F32Results[o])>> : o \in F32Inputs}
F64Graph == {<<o, Triple(F64Results[o])>> : o \in F64Inputs}
Graph(t) == IF t = "f32" THEN F32Graph ELSE F64Graph

(* ------------------------------------------------------------------ *)
(* Properties.                                                         *)
(* ------------------------------------------------------------------ *)

\* C1: for every normalized input v = (-1)^s * (2^(p-1) + f) * 2^(e - bias - (p-1)),
\* the returned triple satisfies v == sign * sigbits * 2^exp exactly.
C1_ExactValue ==
    (Done /\ IsNormal(ty, bits)) =>
        /\ sign = (IF SignBit(ty, bits) THEN -1 ELSE 1)
        /\ Canon(sigbits, exp)
             = Canon(Frac(ty, bits) \cup {NUM_SIG_BITS(ty) - 1},
                     Field(ty, bits) - Bias(ty) - (NUM_SIG_BITS(ty) - 1))

\* C2: for every normalized input, bit NUM_SIG_BITS - 1 of the returned sigbits is 1.
C2_LeadingOne ==
    (Done /\ IsNormal(ty, bits)) => (NUM_SIG_BITS(ty) - 1) \in sigbits

\* C3 (as stated): for every denormal input, bit NUM_SIG_BITS - 1 of the returned
\* sigbits is 0 and the returned exp equals EXP_MIN.
C3_Original ==
    (Done /\ IsDenormal(ty, bits)) =>
        /\ (NUM_SIG_BITS(ty) - 1) \notin sigbits
        /\ exp = EXP_MIN(ty)

\* C3 (amended): for every denormal input no implicit bit is inserted (the returned
\* sigbits is below 2^NUM_SIG_BITS), bit NUM_SIG_BITS - 1 of sigbits equals the top
\* stored fraction bit (the fraction is shifted left by one), and the returned exp
\* equals EXP_MIN.
C3_Amended ==
    (Done /\ IsDenormal(ty, bits)) =>
        /\ sigbits \subseteq 0..(NUM_SIG_BITS(ty) - 1)
        /\ ((NUM_SIG_BITS(ty) - 1) \in sigbits <=> (NUM_SIG_BITS(ty) - 2) \in bits)
        /\ exp = EXP_MIN(ty)

C3_Witness ==
    /\ Done
    /\ IsDenormal(ty, bits)
    /\ (NUM_SIG_BITS(ty) - 2) \in bits
    /\ (NUM_SIG_BITS(ty) - 1) \in sigbits

\* C4: for every input whose raw exponent field is all ones the result is
\* (stored fraction unchanged, EXP_INF_NAN, sign): sigbits is 0 for an infinity
\* and non-zero, equal to the stored fraction, for every NaN.
C4_InfNan ==
    (Done /\ Field(ty, bits) = MaxField(ty)) =>
        /\ sigbits = Frac(ty, bits)
        /\ exp = EXP_INF_NAN(ty)
        /\ sign = (IF SignBit(ty, bits) THEN -1 ELSE 1)
        /\ (IsInf(ty, bits) => sigbits = {})
        /\ (IsNaN(ty, bits) => sigbits # {})

C4_Witness ==
    /\ Done
    /\ IsNaN(ty, bits)
    /\ SignBit(ty, bits)
    /\ 0 \in sigbits
    /\ exp = EXP_INF_NAN(ty)

\* C5: the returned exp lies in [EXP_MIN, EXP_INF_NAN] and is computed without
\* overflowing i16; for finite inputs it lies in [EXP_MIN, EXP_MAX], so it
\* equals EXP_INF_NAN exactly for infinities and NaNs.
C5_ExpRange ==
    Done =>
        /\ ~ovf
        /\ EXP_MIN(ty) <= exp /\ exp <= EXP_INF_NAN(ty)
        /\ (IsFinite(ty, bits) => exp <= EXP_MAX(ty))
        /\ (exp = EXP_INF_NAN(ty) <=> (IsInf(ty, bits) \/ IsNaN(ty, bits)))

C5_Witness ==
    /\ Done
    /\ Field(ty, bits) = MaxField(ty) - 1
    /\ exp = EXP_MAX(ty)

\* C6: the returned sign is +1 when the top bit is 0 and -1 when it is 1, and
\* for every finite v, -v decomposes to the same sigbits and exp with the
\* sign negated.
C6_Sign ==
    Done =>
        /\ sign = (IF SignBit(ty, bits) THEN -1 ELSE 1)
        /\ (IsFinite(ty, bits) =>
              LET r == decompose(ty, Negated(ty, bits))
              IN  r.sigbits = sigbits /\ r.exp = exp /\ r.sign = -sign)

C6_Witness ==
    /\ Done
    /\ SignBit(ty, bits)
    /\ IsFinite(ty, bits)
    /\ sign = -1
    /\ decompose(ty, Negated(ty, bits)).sign = 1

C8_ZeroDenormal ==
    Done =>
        /\ Field(ty, bits) = 0 =>
              /\ sigbits = {i + 1 : i \in Frac(ty, bits)}
              /\ exp = EXP_MIN(ty)
              /\ sign = (IF SignBit(ty, bits) THEN -1 ELSE 1)
        /\ bits = {} => (sigbits = {} /\ exp = EXP_MIN(ty) /\ sign = 1)
        /\ bits = {WS(ty) - 1} => (sigbits = {} /\ exp = EXP_MIN(ty) /\ sign = -1)
        /\ (ty = "f64" /\ bits = NegDenorm64) =>
              (sigbits = {50} /\ exp = F64_EXP_MIN /\ sign = -1)

C8_Witness ==
    /\ Done
    /\ ty = "f64"
    /\ bits = NegDenorm64
    /\ sigbits = {50}

\* C9: for every supported width EXP_ADJUST equals
\* (2^(NUM_EXP_BITS-1) - 1) - NUM_SIG_BITS + 1, EXP_MIN == -EXP_ADJUST and
\* EXP_INF_NAN == EXP_MAX + 1.
C9_Constants ==
    Done =>
        /\ EXP_ADJUST(ty) = (Pow2(NUM_EXP_BITS(ty) - 1) - 1) - NUM_SIG_BITS(ty) + 1
        /\ EXP_MIN(ty) = -EXP_ADJUST(ty)
        /\ EXP_INF_NAN(ty) = EXP_MAX(ty) + 1

\* C10: to_float_parts is injective on the bit patterns of each width: two
\* distinct patterns never decompose to the same (sigbits, exp, sign).
C10_Injective ==
    Done =>
        \A p \in Graph(ty) :
            p[1] # bits => p[2] # <<sigbits, exp, sign>>

C10_Witness ==
    /\ Done
    /\ <<bits, <<sigbits, exp, sign>>>> \in Graph(ty)
    /\ \E p \in Graph(ty) :
          p[1] # bits /\ p[2][1] = sigbits /\ p[2][3] = sign /\ p[2][2] # exp
    /\ \E p \in Graph(ty) :
          p[1] # bits /\ p[2][2] = exp /\ p[2][3] = sign /\ p[2][1] # sigbits

====
